---- MODULE Spec2Model ----
(***************************************************************************)
(* Credit Approval System (backend/server.py): the credit scorer, the EMI  *)
(* calculator, the rate policy, and the register / check-eligibility /     *)
(* create-loan / make-payment / get-customer handlers over the customers,  *)
(* loans and loan_payments collections.                                    *)
(*                                                                         *)
(* Numbers.  The program computes in Python floats.  The model computes    *)
(* the same expressions in exact arithmetic on a fixed-point grid: an      *)
(* amount of money is an integer number of 1/6000 of a currency unit, so   *)
(* that a cent (60), half a cent (30) and principal/tenure for the tenures *)
(* used are all exact.  Interest rates are whole percents.  Float rounding *)
(* noise (an error of about 1e-16 relative) is not modelled.  Where a      *)
(* power of the annuity formula exceeds TLC's integers, the same exact     *)
(* quotient is computed on sequences of digits.                            *)
(***************************************************************************)
EXTENDS Integers, Sequences, FiniteSets, TLC

VARIABLES customers, loans, payments, req, resp, inflight

vars == <<customers, loans, payments, req, resp, inflight>>

(***************************************************************************)
(* Bounds and input sets.                                                  *)
(***************************************************************************)
MaxCustomers == 2
MaxLoans == 2
MaxPayments == 1
MaxHistory == 4
MaxInflight == 2

\* Model units per currency unit, and per cent (0.01).
Unit == 60 * 100
Cent == Unit \div 100

(***************************************************************************)
(* Arithmetic helpers.                                                     *)
(***************************************************************************)
Abs(x) == IF x < 0 THEN -x ELSE x

Max(x, y) == IF x >= y THEN x ELSE y

Min(x, y) == IF x <= y THEN x ELSE y

\* int(a / b): Python's int() truncates toward zero.
TruncDiv(a, b) ==
    LET q == Abs(a) \div Abs(b)
    IN  IF (a < 0) = (b < 0) THEN q ELSE -q

RECURSIVE GCD(_, _)
GCD(x, y) == IF y = 0 THEN x ELSE GCD(y, x % y)

RECURSIVE Pow(_, _)
Pow(x, n) == IF n = 0 THEN 1 ELSE x * Pow(x, n - 1)

\* The largest integer of TLC's arithmetic, 2^31 - 1.
IntMax == (Pow(2, 30) - 1) + Pow(2, 30)

\* x^n <= limit, decided without computing x^n; x >= 1.
RECURSIVE FitsPow(_, _, _)
FitsPow(x, n, limit) ==
    IF n = 0 THEN limit >= 1 ELSE FitsPow(x, n - 1, limit \div x)

\* <<q, r>> with x * n = q * d + r and 0 <= r < d, for x >= 0, n >= 0 and
\* 0 < 3 * d <= IntMax, computed by doubling so that no intermediate product
\* leaves the integer range.
RECURSIVE MulDivMod(_, _, _)
MulDivMod(x, n, d) ==
    IF x = 0 THEN <<0, 0>>
    ELSE LET h == MulDivMod(x \div 2, n, d)
             t == 2 * h[2] + (x % 2) * (n % d)
         IN  <<2 * h[1] + (x % 2) * (n \div d) + (t \div d), t % d>>

\* round(x * n / d) to the nearest integer, an exact tie going to the even
\* neighbour as Python's round() does; x >= 0, n >= 0, d > 0.
RoundMulDiv(x, n, d) ==
    LET qr == MulDivMod(x, n, d)
    IN  IF 2 * qr[2] < d THEN qr[1]
        ELSE IF 2 * qr[2] > d THEN qr[1] + 1
        ELSE IF qr[1] % 2 = 0 THEN qr[1] ELSE qr[1] + 1

\* round(x) of a signed amount x given in model units, as a whole number.
RoundToWhole(x) ==
    LET r == RoundMulDiv(Abs(x), 1, Unit)
    IN  IF x < 0 THEN -r ELSE r

(***************************************************************************)
(* Natural numbers beyond TLC's integer range, as sequences                *)
(* of base-10000 digits, least significant first; <<>> is 0.  They carry   *)
(* the powers (1 + monthly_rate)^tenure of the annuity formula exactly.    *)
(***************************************************************************)
BigBase == 10000

RECURSIVE BigOfInt(_)
BigOfInt(x) == IF x = 0 THEN <<>> ELSE <<x % BigBase>> \o BigOfInt(x \div BigBase)

\* Without its leading (most significant) zero digits.
RECURSIVE BigTrim(_)
BigTrim(b) ==
    IF b = <<>> THEN <<>>
    ELSE IF b[Len(b)] = 0 THEN BigTrim(SubSeq(b, 1, Len(b) - 1)) ELSE b

\* b * m + carry, for 0 <= m < 2 * 10^5.
RECURSIVE BigMulSmall(_, _, _)
BigMulSmall(b, m, carry) ==
    IF b = <<>> THEN BigOfInt(carry)
    ELSE LET t == Head(b) * m + carry
         IN  <<t % BigBase>> \o BigMulSmall(Tail(b), m, t \div BigBase)

RECURSIVE BigAdd(_, _, _)
BigAdd(b, c, carry) ==
    IF b = <<>> /\ c = <<>> THEN BigOfInt(carry)
    ELSE LET t == (IF b = <<>> THEN 0 ELSE Head(b))
                  + (IF c = <<>> THEN 0 ELSE Head(c)) + carry
         IN  <<t % BigBase>> \o BigAdd(IF b = <<>> THEN <<>> ELSE Tail(b),
                                       IF c = <<>> THEN <<>> ELSE Tail(c),
                                       t \div BigBase)

\* b - c - borrow, for b >= c + borrow.
RECURSIVE BigSub(_, _, _)
BigSub(b, c, borrow) ==
    IF b = <<>> THEN <<>>
    ELSE LET t == Head(b) - (IF c = <<>> THEN 0 ELSE Head(c)) - borrow
         IN  <<(t + BigBase) % BigBase>>
             \o BigSub(Tail(b), IF c = <<>> THEN <<>> ELSE Tail(c),
                       IF t < 0 THEN 1 ELSE 0)

RECURSIVE BigMul(_, _)
BigMul(b, c) ==
    IF c = <<>> THEN <<>>
    ELSE BigAdd(BigMulSmall(b, Head(c), 0), <<0>> \o BigMul(b, Tail(c)), 0)

\* x^n for 0 <= x < 2 * 10^5.
RECURSIVE BigPow(_, _)
BigPow(x, n) == IF n = 0 THEN <<1>> ELSE BigMulSmall(BigPow(x, n - 1), x, 0)

RECURSIVE BigLessFrom(_, _, _)
BigLessFrom(b, c, i) ==
    IF i = 0 THEN FALSE
    ELSE IF b[i] # c[i] THEN b[i] < c[i]
    ELSE BigLessFrom(b, c, i - 1)

BigLess(b, c) ==
    LET tb == BigTrim(b)
        tc == BigTrim(c)
    IN  IF Len(tb) # Len(tc) THEN Len(tb) < Len(tc)
        ELSE BigLessFrom(tb, tc, Len(tb))

\* <<q, r>> with n = q * d + r and r < d, for d > 0 (q an integer, r a digit
\* sequence): binary long division, dividing by 2d first.  The evaluation nests
\* once per bit of q; the installments of the amounts drawn are below 2^16
\* cents.
RECURSIVE BigDivMod(_, _)
BigDivMod(n, d) ==
    IF BigLess(n, d) THEN <<0, n>>
    ELSE LET h == BigDivMod(n, BigAdd(d, d, 0))
         IN  IF BigLess(h[2], d) THEN <<2 * h[1], h[2]>>
             ELSE <<2 * h[1] + 1, BigSub(h[2], d, 0)>>

\* round(n / d), an exact tie going to the even neighbour.
BigRoundDiv(n, d) ==
    LET qr == BigDivMod(n, d)
        twice == BigAdd(qr[2], qr[2], 0)
    IN  IF BigLess(twice, d) THEN qr[1]
        ELSE IF BigLess(d, twice) THEN qr[1] + 1
        ELSE IF qr[1] % 2 = 0 THEN qr[1] ELSE qr[1] + 1

RECURSIVE SumSeq(_)
SumSeq(s) == IF s = <<>> THEN 0 ELSE Head(s) + SumSeq(Tail(s))

\* [f(s[1]), ..., f(s[n])] for a field name f of the records of s.
Field(s, f) == [i \in 1..Len(s) |-> s[i][f]]

(***************************************************************************)
(* Business logic functions.                                               *)
(***************************************************************************)

\* Line 94 divides by the stored approved_limit; the default 1 of
\* customer.get('approved_limit', 1) applies only to a document without the
\* key, and every customer document has it, so a stored 0 raises
\* ZeroDivisionError.
calculate_credit_score_raises(customer, custLoans) ==
    custLoans # <<>> /\ customer.approved_limit = 0

calculate_credit_score(customer, custLoans) ==
    IF custLoans = <<>> THEN 500
    ELSE
      LET total_emis == SumSeq(Field(custLoans, "tenure"))
          paid_on_time == SumSeq(Field(custLoans, "emis_paid_on_time"))
          payment_points ==
              IF total_emis > 0 THEN TruncDiv(paid_on_time * 200, total_emis) ELSE 0
          debt_points ==
              TruncDiv((customer.approved_limit - customer.current_debt) * 150,
                       customer.approved_limit)
          activity_points ==
              (IF Len(custLoans) > 0 THEN 100 ELSE 0)
              + (IF Len(custLoans) > 3 THEN 50 ELSE 0)
          total_amount == SumSeq(Field(custLoans, "loan_amount"))
          \* income_ratio = monthly_salary / avg_loan_amount if avg > 0 else 0
          income_points ==
              IF total_amount > 0
                 /\ customer.monthly_salary * Len(custLoans) > 2 * total_amount
              THEN 50 ELSE 0
          score == 500 + payment_points + debt_points + activity_points + income_points
      IN  Max(Min(score, 850), 300)

\* tenure = 0 divides by zero in both branches (principal / 0, and
\* pow(1 + monthly_rate, 0) - 1 = 0).
calculate_emi_raises(principal, rate, tenure) == tenure = 0

\* rate is a whole percent >= 0 and tenure >= 1.  With rate 0 the result is
\* principal / tenure, not rounded: it is exact on the grid for the principals
\* drawn (whole cents) and the tenures drawn (divisors of 60).
\* Otherwise monthly_rate = rate / 1200
\* = a / b in lowest terms, and
\*   emi = principal * (a/b) * ((a+b)/b)^n / (((a+b)/b)^n - 1)
\*       = principal * a * (a+b)^n / (b * ((a+b)^n - b^n)),
\* rounded to 2 decimals, that is to a whole number of cents.
calculate_emi(principal, rate, tenure) ==
    IF rate = 0 THEN TruncDiv(principal, tenure)
    ELSE
      LET g == GCD(rate, 12 * 100)
          a == rate \div g
          b == (12 * 100) \div g
          \* (a+b)^n and the divisor within the integer range: the quotient is
          \* computed on integers, and otherwise, the same quotient, on digits.
          fits == /\ FitsPow(a + b, tenure, IntMax \div a)
                  /\ Pow(a + b, tenure) - Pow(b, tenure) <= (IntMax \div 3) \div (Cent * b)
          up == Pow(a + b, tenure)
          bigUp == BigPow(a + b, tenure)
          cents ==
              IF fits
              THEN RoundMulDiv(Abs(principal), a * up, Cent * b * (up - Pow(b, tenure)))
              ELSE BigRoundDiv(BigMul(BigMulSmall(bigUp, a, 0), BigOfInt(Abs(principal))),
                               BigMulSmall(BigSub(bigUp, BigPow(b, tenure), 0), Cent * b, 0))
      IN  IF principal < 0 THEN -(cents * Cent) ELSE cents * Cent

\* Mutant: the bands compared with > instead of >=.
determine_interest_rate_exclusive(credit_score) ==
    IF credit_score > 750 THEN 8
    ELSE IF credit_score > 650 THEN 10
    ELSE IF credit_score > 550 THEN 12
    ELSE 15

determine_interest_rate(credit_score) ==
    IF credit_score >= 750 THEN 8
    ELSE IF credit_score >= 650 THEN 10
    ELSE IF credit_score >= 550 THEN 12
    ELSE 15

(***************************************************************************)
(* The store.                                                              *)
(***************************************************************************)
NoMessage == [op |-> "none"]

\* The create-loan requests being served: a request that is between two of
\* its awaits holds what it has read so far.  Outside RaceSpec a handler runs
\* from its first line to its last in one step and no request is ever held.
Requests == 1..MaxInflight

Idle == [pc |-> "idle"]

Init ==
    /\ customers = <<>>
    /\ loans = <<>>
    /\ payments = <<>>
    /\ req = NoMessage
    /\ resp = NoMessage
    /\ inflight = [i \in Requests |-> Idle]

\* db.customers.find_one({"customer_id": c})
CustomerExists(c) == c \in 1..Len(customers)

\* db.loans.find({"customer_id": c}).to_list(1000)
LoansOf(c) == SelectSeq(loans, LAMBDA l : l.customer_id = c)

\* The request fields are floats and ints without bounds (lines 41-64); the
\* model draws them from these sets.  0.01 is the smallest salary used: its
\* approved limit rounds to 0.
Salaries == {Cent, 10 * Unit}

Amounts == {-Unit, 12 * Unit}

Rates == {0, 10}

Tenures == {0, 3}

\* A payment is drawn relative to the installment of the loan it names (0 for a
\* loan that does not exist): 0.02 below, equal, 0.005 above and 0.01 above.
PaymentOffsets == {-2 * Cent, 0, Cent \div 2, Cent}

CustomerIds == 1..MaxCustomers

LoanIds == 1..(MaxLoans + 1)

\* A storage write that raises: none, the first write of a handler, or its
\* second write.
Faults == {"none", "first_write", "second_write"}

(***************************************************************************)
(* API routes.  Each handler records the request it received in req and    *)
(* what it returned in resp (status 500: an exception no handler catches). *)
(***************************************************************************)
\* Mutant: the approved limit stored as 36 x salary, not rounded.
register_customer_unrounded(monthly_salary, fault) ==
    /\ Len(customers) < MaxCustomers
    /\ fault \in {"none", "first_write"}
    /\ LET approved_limit == 36 * monthly_salary
       IN  /\ req' = [op |-> "register", monthly_salary |-> monthly_salary]
           /\ IF fault = "first_write"
              THEN /\ customers' = customers
                   /\ resp' = [op |-> "register", status |-> 400]
              ELSE /\ customers' = Append(customers,
                          [monthly_salary |-> monthly_salary,
                           approved_limit |-> approved_limit,
                           current_debt |-> 0])
                   /\ resp' = [op |-> "register", status |-> 200,
                               customer_id |-> Len(customers) + 1,
                               monthly_salary |-> monthly_salary,
                               approved_limit |-> approved_limit]
    /\ UNCHANGED <<loans, payments, inflight>>

register_customer(monthly_salary, fault) ==
    /\ Len(customers) < MaxCustomers
    /\ fault \in {"none", "first_write"}
    /\ LET approved_limit == RoundToWhole(36 * monthly_salary) * Unit
       IN  /\ req' = [op |-> "register", monthly_salary |-> monthly_salary]
           /\ IF fault = "first_write"
              THEN /\ customers' = customers
                   /\ resp' = [op |-> "register", status |-> 400]
              ELSE /\ customers' = Append(customers,
                          [monthly_salary |-> monthly_salary,
                           approved_limit |-> approved_limit,
                           current_debt |-> 0])
                   /\ resp' = [op |-> "register", status |-> 200,
                               customer_id |-> Len(customers) + 1,
                               monthly_salary |-> monthly_salary,
                               approved_limit |-> approved_limit]
    /\ UNCHANGED <<loans, payments, inflight>>

\* total_emi / monthly_salary > 0.5, for monthly_salary # 0.
RatioAboveHalf(total_emi, monthly_salary) ==
    IF monthly_salary > 0 THEN 2 * total_emi > monthly_salary
    ELSE 2 * total_emi < monthly_salary

\* Lines 173-179 of check_eligibility and 215-218 of create_loan raise
\* ZeroDivisionError in the scorer, in the EMI calculator or in
\* total_emi / monthly_salary.
evaluation_raises(customer, custLoans, loan_amount, interest_rate, tenure) ==
    \/ calculate_credit_score_raises(customer, custLoans)
    \/ calculate_emi_raises(loan_amount, interest_rate, tenure)
    \/ customer.monthly_salary = 0

\* Mutant: the credit_score < 500 rule left out.
eligibility_rules_without_score(credit_score, ratio_above_half, new_debt, approved_limit, interest_rate, suggested_rate) ==
    IF ratio_above_half THEN <<FALSE, interest_rate>>
    ELSE IF new_debt > approved_limit THEN <<FALSE, interest_rate>>
    ELSE IF credit_score < 650 THEN <<TRUE, Max(interest_rate, suggested_rate)>>
    ELSE <<TRUE, interest_rate>>

\* Mutant: the rate of a score below 650 left uncorrected.
eligibility_rules_uncorrected(credit_score, ratio_above_half, new_debt, approved_limit, interest_rate, suggested_rate) ==
    IF credit_score < 500 THEN <<FALSE, interest_rate>>
    ELSE IF ratio_above_half THEN <<FALSE, interest_rate>>
    ELSE IF new_debt > approved_limit THEN <<FALSE, interest_rate>>
    ELSE <<TRUE, interest_rate>>

\* The business rules of check_eligibility: <<approval, corrected_interest_rate>>.
eligibility_rules(credit_score, ratio_above_half, new_debt, approved_limit, interest_rate, suggested_rate) ==
    IF credit_score < 500 THEN <<FALSE, interest_rate>>
    ELSE IF ratio_above_half THEN <<FALSE, interest_rate>>
    ELSE IF new_debt > approved_limit THEN <<FALSE, interest_rate>>
    ELSE IF credit_score < 650 THEN <<TRUE, Max(interest_rate, suggested_rate)>>
    ELSE <<TRUE, interest_rate>>

\* The body of check_eligibility's response, when nothing raises.
check_eligibility_result(customer, custLoans, loan_amount, interest_rate, tenure) ==
    LET credit_score == calculate_credit_score(customer, custLoans)
        suggested_rate == determine_interest_rate(credit_score)
        emi == calculate_emi(loan_amount, interest_rate, tenure)
        total_emi == SumSeq(Field(custLoans, "monthly_repayment")) + emi
        new_debt == customer.current_debt + loan_amount
        rules == eligibility_rules(credit_score,
                     RatioAboveHalf(total_emi, customer.monthly_salary),
                     new_debt, customer.approved_limit, interest_rate, suggested_rate)
    IN  [approval |-> rules[1],
         interest_rate |-> rules[2],
         corrected_interest_rate |-> rules[2],
         tenure |-> tenure,
         monthly_installment |-> calculate_emi(loan_amount, rules[2], tenure),
         credit_score |-> credit_score]

LoanRequest(op, c, loan_amount, interest_rate, tenure) ==
    [op |-> op, customer_id |-> c, loan_amount |-> loan_amount,
     interest_rate |-> interest_rate, tenure |-> tenure]

check_eligibility(c, loan_amount, interest_rate, tenure) ==
    /\ req' = LoanRequest("check_eligibility", c, loan_amount, interest_rate, tenure)
    /\ resp' =
         IF ~CustomerExists(c) THEN [op |-> "check_eligibility", status |-> 404]
         ELSE IF evaluation_raises(customers[c], LoansOf(c), loan_amount, interest_rate, tenure)
         THEN [op |-> "check_eligibility", status |-> 500]
         ELSE [op |-> "check_eligibility", status |-> 200, customer_id |-> c,
               body |-> check_eligibility_result(customers[c], LoansOf(c),
                                                 loan_amount, interest_rate, tenure)]
    /\ UNCHANGED <<customers, loans, payments, inflight>>

\* Mutant: the EMI-to-income criterion left out.
loan_not_approved_ignoring_emi(credit_score, ratio_above_half, new_debt, approved_limit) ==
    credit_score < 500 \/ new_debt > approved_limit

\* Mutant: the approved-limit criterion left out.
loan_not_approved_ignoring_debt(credit_score, ratio_above_half, new_debt, approved_limit) ==
    credit_score < 500 \/ ratio_above_half

\* The approval criteria of create_loan (line 222): TRUE when it refuses.
loan_not_approved(credit_score, ratio_above_half, new_debt, approved_limit) ==
    credit_score < 500 \/ ratio_above_half \/ new_debt > approved_limit

\* Mutant: the update without its customer_id filter.
increment_every_customer_debt(c, loan_amount) ==
    [k \in 1..Len(customers) |->
        [customers[k] EXCEPT !.current_debt = @ + loan_amount]]

\* db.customers.update_one({"customer_id": c}, {"$inc": {"current_debt": loan_amount}})
increment_customer_debt(c, loan_amount) ==
    [customers EXCEPT ![c].current_debt = @ + loan_amount]

create_loan(c, loan_amount, interest_rate, tenure, fault) ==
    /\ req' = LoanRequest("create_loan", c, loan_amount, interest_rate, tenure)
    /\ IF ~CustomerExists(c)
       THEN /\ resp' = [op |-> "create_loan", status |-> 404]
            /\ UNCHANGED <<customers, loans>>
       ELSE IF evaluation_raises(customers[c], LoansOf(c), loan_amount, interest_rate, tenure)
       THEN /\ resp' = [op |-> "create_loan", status |-> 500]
            /\ UNCHANGED <<customers, loans>>
       ELSE
         LET customer == customers[c]
             credit_score == calculate_credit_score(customer, LoansOf(c))
             emi == calculate_emi(loan_amount, interest_rate, tenure)
             total_emi == SumSeq(Field(LoansOf(c), "monthly_repayment")) + emi
             new_debt == customer.current_debt + loan_amount
             loan_doc == [customer_id |-> c,
                          loan_amount |-> loan_amount,
                          tenure |-> tenure,
                          interest_rate |-> interest_rate,
                          monthly_repayment |-> emi,
                          emis_paid_on_time |-> 0,
                          status |-> "active"]
         IN  IF loan_not_approved(credit_score,
                    RatioAboveHalf(total_emi, customer.monthly_salary),
                    new_debt, customer.approved_limit)
             THEN /\ resp' = [op |-> "create_loan", status |-> 400,
                              detail |-> "Loan not approved"]
                  /\ UNCHANGED <<customers, loans>>
             ELSE /\ Len(loans) < MaxLoans
                  /\ CASE fault = "first_write" ->
                            \* db.loans.insert_one raises
                            /\ resp' = [op |-> "create_loan", status |-> 400,
                                        detail |-> "Loan creation failed"]
                            /\ UNCHANGED <<customers, loans>>
                       [] fault = "second_write" ->
                            \* db.customers.update_one raises after the insert
                            /\ loans' = Append(loans, loan_doc)
                            /\ resp' = [op |-> "create_loan", status |-> 400,
                                        detail |-> "Loan creation failed"]
                            /\ UNCHANGED customers
                       [] OTHER ->
                            /\ loans' = Append(loans, loan_doc)
                            /\ customers' = increment_customer_debt(c, loan_amount)
                            /\ resp' = [op |-> "create_loan", status |-> 200,
                                        loan_id |-> Len(loans) + 1,
                                        customer_id |-> c,
                                        loan_approved |-> TRUE,
                                        monthly_installment |-> emi]
    /\ UNCHANGED <<payments, inflight>>

\* db.loans.find_one({"loan_id": l})
LoanExists(l) == l \in 1..Len(loans)

\* Mutant: the tolerance compared with <= instead of <.
payment_within_tolerance(payment_amount, monthly_repayment) ==
    Abs(payment_amount - monthly_repayment) <= Cent

\* abs(payment_amount - loan['monthly_repayment']) < 0.01
payment_on_time(payment_amount, monthly_repayment) ==
    Abs(payment_amount - monthly_repayment) < Cent

\* Mutant: the payment recorded only when it is on time.
record_on_time_payment(l, payment_amount) ==
    IF payment_on_time(payment_amount, loans[l].monthly_repayment)
    THEN Append(payments, [loan_id |-> l, payment_amount |-> payment_amount])
    ELSE payments

\* db.loan_payments.insert_one(payment_doc)
record_payment(l, payment_amount) ==
    Append(payments, [loan_id |-> l, payment_amount |-> payment_amount])

make_payment(l, payment_amount, fault) ==
    /\ req' = [op |-> "make_payment", loan_id |-> l, payment_amount |-> payment_amount]
    /\ IF ~LoanExists(l)
       THEN /\ resp' = [op |-> "make_payment", status |-> 404]
            /\ UNCHANGED <<loans, payments>>
       ELSE
         LET on_time == payment_on_time(payment_amount, loans[l].monthly_repayment)
         IN  /\ Len(payments) < MaxPayments
             /\ CASE fault = "first_write" ->
                       \* db.loan_payments.insert_one raises
                       /\ resp' = [op |-> "make_payment", status |-> 400]
                       /\ UNCHANGED <<loans, payments>>
                  [] fault = "second_write" /\ on_time ->
                       \* db.loans.update_one raises after the insert
                       /\ payments' = record_payment(l, payment_amount)
                       /\ resp' = [op |-> "make_payment", status |-> 400]
                       /\ UNCHANGED loans
                  [] OTHER ->
                       /\ payments' = record_payment(l, payment_amount)
                       /\ loans' = IF on_time
                                   THEN [loans EXCEPT ![l].emis_paid_on_time = @ + 1]
                                   ELSE loans
                       /\ resp' = [op |-> "make_payment", status |-> 200,
                                   loan_id |-> l, payment_amount |-> payment_amount]
    /\ UNCHANGED <<customers, inflight>>

get_customer(c) ==
    /\ req' = [op |-> "get_customer", customer_id |-> c]
    /\ resp' =
         IF ~CustomerExists(c) THEN [op |-> "get_customer", status |-> 404]
         ELSE IF calculate_credit_score_raises(customers[c], LoansOf(c))
         THEN [op |-> "get_customer", status |-> 500]
         ELSE [op |-> "get_customer", status |-> 200, customer_id |-> c,
               monthly_salary |-> customers[c].monthly_salary,
               approved_limit |-> customers[c].approved_limit,
               current_debt |-> customers[c].current_debt,
               credit_score |-> calculate_credit_score(customers[c], LoansOf(c)),
               total_loans |-> Len(LoansOf(c))]
    /\ UNCHANGED <<customers, loans, payments, inflight>>

\* The installment a payment to loan l is measured against.
Installment(l) == IF LoanExists(l) THEN loans[l].monthly_repayment ELSE 0

(***************************************************************************)
(* Spec: the handlers run one at a time and every storage write succeeds.  *)
(***************************************************************************)
Register == \E s \in Salaries : register_customer(s, "none")

CheckEligibility ==
    \E c \in CustomerIds, a \in Amounts, r \in Rates, t \in Tenures :
        check_eligibility(c, a, r, t)

CreateLoan ==
    \E c \in CustomerIds, a \in Amounts, r \in Rates, t \in Tenures :
        create_loan(c, a, r, t, "none")

MakePayment ==
    \E l \in LoanIds, d \in PaymentOffsets : make_payment(l, Installment(l) + d, "none")

GetCustomer == \E c \in CustomerIds : get_customer(c)

Next == Register \/ CheckEligibility \/ CreateLoan \/ MakePayment \/ GetCustomer

Spec == Init /\ [][Next]_vars

(***************************************************************************)
(* FaultSpec: as Spec, and a storage write may raise.                      *)
(***************************************************************************)
FaultRegister == \E s \in Salaries, f \in Faults : register_customer(s, f)

FaultCreateLoan ==
    \E c \in CustomerIds, a \in Amounts, r \in Rates, t \in Tenures, f \in Faults :
        create_loan(c, a, r, t, f)

FaultMakePayment ==
    \E l \in LoanIds, d \in PaymentOffsets, f \in Faults :
        make_payment(l, Installment(l) + d, f)

FaultNext == FaultRegister \/ FaultCreateLoan \/ FaultMakePayment \/ GetCustomer

FaultSpec == Init /\ [][FaultNext]_vars

(***************************************************************************)
(* EngineSpec: the decision engine on an arbitrary stored customer and     *)
(* loan history.  The store starts as ingest_data can leave it: it upserts *)
(* customer and loan documents with whatever approved_limit, current_debt, *)
(* tenure and emis_paid_on_time the spreadsheet holds.                     *)
(***************************************************************************)
ProfileSalaries == {0, 10 * Unit}

ProfileLimits == {0, 360 * Unit}

ProfileDebts == {0, 300 * Unit, 900 * Unit, 2000 * Unit}

HistoryDoc(loan_amount, interest_rate, tenure, emis_paid_on_time) ==
    [customer_id |-> 1,
     loan_amount |-> loan_amount,
     tenure |-> tenure,
     interest_rate |-> interest_rate,
     monthly_repayment |-> calculate_emi(loan_amount, interest_rate, tenure),
     emis_paid_on_time |-> emis_paid_on_time,
     status |-> "active"]

\* A loan with nothing paid, and one with more installments paid than its tenure.
HistoryDocs ==
    {HistoryDoc(12 * Unit, 10, 3, 0),
     HistoryDoc(2 * Unit, 0, 3, 5)}

RECURSIVE SeqsUpTo(_, _)
SeqsUpTo(S, n) ==
    IF n = 0 THEN {<<>>}
    ELSE LET shorter == SeqsUpTo(S, n - 1)
         IN  shorter \cup {Append(h, d) : h \in shorter, d \in S}

EngineInit ==
    /\ customers \in {<<[monthly_salary |-> s, approved_limit |-> l, current_debt |-> d]>> :
                        s \in ProfileSalaries, l \in ProfileLimits, d \in ProfileDebts}
    /\ loans \in SeqsUpTo(HistoryDocs, MaxHistory)
    /\ payments = <<>>
    /\ req = NoMessage
    /\ resp = NoMessage
    /\ inflight = [i \in Requests |-> Idle]

EngineAmounts == {-1000 * Unit, 2 * Unit, 100 * Unit}

EngineRates == {0, 10, 20}

EngineCheckEligibility ==
    \E c \in CustomerIds, a \in EngineAmounts, r \in EngineRates, t \in Tenures :
        check_eligibility(c, a, r, t)

EngineNext == EngineCheckEligibility \/ GetCustomer

EngineSpec == EngineInit /\ [][EngineNext]_vars

(***************************************************************************)
(* RateSpec: the rate policy applied to every score of a range around the  *)
(* scorer's [300, 850].                                                    *)
(***************************************************************************)
MinScore == 250
MaxScore == 900

RatePolicy ==
    \E s \in MinScore..MaxScore :
        /\ req' = [op |-> "determine_interest_rate", credit_score |-> s]
        /\ resp' = [op |-> "determine_interest_rate", credit_score |-> s,
                    interest_rate |-> determine_interest_rate(s)]
        /\ UNCHANGED <<customers, loans, payments, inflight>>

RateSpec == Init /\ [][RatePolicy]_vars

(***************************************************************************)
(* WorkflowSpec: the workflow of backend_test.py, register, then           *)
(* check-eligibility, then create-loan at the rate check-eligibility       *)
(* returned, on valid requests of a customer with a salary of 10.          *)
(***************************************************************************)
WorkflowSalaries == {10 * Unit}

\* <<loan_amount, interest_rate, tenure>>: loans of 12 and of 15 over 3
\* months, each without interest and at the rate 15.0 that check_eligibility
\* returns for a score of 500.
WorkflowTerms ==
    {<<12 * Unit, 0, 3>>, <<12 * Unit, 15, 3>>,
     <<15 * Unit, 0, 3>>, <<15 * Unit, 15, 3>>}

WorkflowRegister == \E s \in WorkflowSalaries : register_customer(s, "none")

WorkflowCheckEligibility ==
    \E c \in CustomerIds, t \in WorkflowTerms : check_eligibility(c, t[1], t[2], t[3])

WorkflowCreateLoan ==
    \E c \in CustomerIds, t \in WorkflowTerms : create_loan(c, t[1], t[2], t[3], "none")

WorkflowNext == WorkflowRegister \/ WorkflowCheckEligibility \/ WorkflowCreateLoan

WorkflowSpec == Init /\ [][WorkflowNext]_vars

(***************************************************************************)
(* ExampleSpec: the scenario of test_customer_registration,                *)
(* test_loan_eligibility and test_loan_creation.  Amounts are in           *)
(* thousands: a salary of 50 and a loan of 100 over 12 months stand for    *)
(* the 50000 and 100000 of the tests, whose approved limit of 1800000 is   *)
(* beyond the integer range in model units.  The score, the three reject   *)
(* rules and the rate correction compare ratios of amounts and do not      *)
(* depend on the scale.                                                    *)
(***************************************************************************)
ExampleSalaries == {50 * Unit}

\* <<loan_amount, interest_rate, tenure>>: the request of the tests, and the
\* same at the rate 15.0 that check_eligibility returns for a score of 500.
ExampleTerms == {<<100 * Unit, 10, 12>>, <<100 * Unit, 15, 12>>}

ExampleRegister == \E s \in ExampleSalaries : register_customer(s, "none")

ExampleCheckEligibility ==
    \E c \in CustomerIds, t \in ExampleTerms : check_eligibility(c, t[1], t[2], t[3])

ExampleCreateLoan ==
    \E c \in CustomerIds, t \in ExampleTerms : create_loan(c, t[1], t[2], t[3], "none")

ExampleNext == ExampleRegister \/ ExampleCheckEligibility \/ ExampleCreateLoan

ExampleSpec == Init /\ [][ExampleNext]_vars

(***************************************************************************)
(* ValidSpec: Register, CreateLoan and MakePayment one at a time on valid  *)
(* requests (monthly_salary > 0, loan_amount > 0, interest_rate >= 0,      *)
(* tenure >= 1), every storage write succeeding.  Salaries is {0.01, 10}.  *)
(***************************************************************************)
ValidAmounts == {Cent, 12 * Unit}

ValidTenures == {3}

ValidCreateLoan ==
    \E c \in CustomerIds, a \in ValidAmounts, r \in Rates, t \in ValidTenures :
        create_loan(c, a, r, t, "none")

ValidNext == Register \/ ValidCreateLoan \/ MakePayment

ValidSpec == Init /\ [][ValidNext]_vars

(***************************************************************************)
(* RaceSpec: create_loan as the event loop runs it.  The handler gives up  *)
(* control at each await: after find_one read the customer (line 208),     *)
(* after to_list read the loans (line 213), after insert_one (line 247)    *)
(* and after update_one (line 250).  Between two awaits it runs alone;     *)
(* other requests run while it waits.  The requests are valid (salary > 0, *)
(* amount > 0, tenure >= 1) and every storage write succeeds.              *)
(***************************************************************************)
RaceSalaries == {10 * Unit}

\* <<loan_amount, interest_rate, tenure>>: 200 over 60 months and 12 over 3
\* months, without interest.
RaceTerms == {<<200 * Unit, 0, 60>>, <<12 * Unit, 0, 3>>}

\* Lines 206-210: the request arrives and find_one reads the customer.
create_loan_read_customer(i, c, loan_amount, interest_rate, tenure) ==
    /\ inflight[i].pc = "idle"
    /\ req' = LoanRequest("create_loan", c, loan_amount, interest_rate, tenure)
    /\ IF ~CustomerExists(c)
       THEN /\ resp' = [op |-> "create_loan", status |-> 404]
            /\ UNCHANGED inflight
       ELSE /\ inflight' = [inflight EXCEPT ![i] =
                               [pc |-> "customer_read",
                                request |-> req',
                                customer |-> customers[c]]]
            /\ UNCHANGED resp
    /\ UNCHANGED <<customers, loans, payments>>

\* Lines 212-226: to_list reads the customer's loans, and the criteria are
\* evaluated on them and on the customer document read before.
create_loan_read_loans(i) ==
    /\ inflight[i].pc = "customer_read"
    /\ LET q == inflight[i].request
           customer == inflight[i].customer
           custLoans == LoansOf(q.customer_id)
       IN  IF evaluation_raises(customer, custLoans, q.loan_amount, q.interest_rate, q.tenure)
           THEN /\ resp' = [op |-> "create_loan", status |-> 500]
                /\ inflight' = [inflight EXCEPT ![i] = Idle]
           ELSE
             LET credit_score == calculate_credit_score(customer, custLoans)
                 emi == calculate_emi(q.loan_amount, q.interest_rate, q.tenure)
                 total_emi == SumSeq(Field(custLoans, "monthly_repayment")) + emi
                 new_debt == customer.current_debt + q.loan_amount
             IN  IF loan_not_approved(credit_score,
                        RatioAboveHalf(total_emi, customer.monthly_salary),
                        new_debt, customer.approved_limit)
                 THEN /\ resp' = [op |-> "create_loan", status |-> 400,
                                  detail |-> "Loan not approved"]
                      /\ inflight' = [inflight EXCEPT ![i] = Idle]
                 ELSE /\ inflight' = [inflight EXCEPT ![i] =
                                         [pc |-> "approved", request |-> q, emi |-> emi]]
                      /\ UNCHANGED resp
    /\ UNCHANGED <<customers, loans, payments, req>>

\* Lines 228-247: db.loans.insert_one(loan_doc).
create_loan_insert(i) ==
    /\ inflight[i].pc = "approved"
    /\ Len(loans) < MaxLoans
    /\ LET q == inflight[i].request
       IN  loans' = Append(loans,
                       [customer_id |-> q.customer_id,
                        loan_amount |-> q.loan_amount,
                        tenure |-> q.tenure,
                        interest_rate |-> q.interest_rate,
                        monthly_repayment |-> inflight[i].emi,
                        emis_paid_on_time |-> 0,
                        status |-> "active"])
    /\ inflight' = [inflight EXCEPT ![i].pc = "inserted"]
    /\ UNCHANGED <<customers, payments, req, resp>>

\* Lines 250-261: db.customers.update_one($inc current_debt), and the reply.
create_loan_increment(i) ==
    /\ inflight[i].pc = "inserted"
    /\ LET q == inflight[i].request
       IN  /\ customers' = increment_customer_debt(q.customer_id, q.loan_amount)
           /\ resp' = [op |-> "create_loan", status |-> 200,
                       customer_id |-> q.customer_id,
                       loan_approved |-> TRUE,
                       monthly_installment |-> inflight[i].emi]
    /\ inflight' = [inflight EXCEPT ![i] = Idle]
    /\ UNCHANGED <<loans, payments, req>>

RaceRegister == \E s \in RaceSalaries : register_customer(s, "none")

RaceReadCustomer ==
    \E i \in Requests, c \in CustomerIds, t \in RaceTerms :
        create_loan_read_customer(i, c, t[1], t[2], t[3])

RaceReadLoans == \E i \in Requests : create_loan_read_loans(i)

RaceInsert == \E i \in Requests : create_loan_insert(i)

RaceIncrement == \E i \in Requests : create_loan_increment(i)

RaceNext ==
    RaceRegister \/ RaceReadCustomer \/ RaceReadLoans \/ RaceInsert \/ RaceIncrement

RaceSpec == Init /\ [][RaceNext]_vars

(***************************************************************************)
(* EmiSpec: the EMI calculator applied to principals P > 0 and tenures     *)
(* n >= 1.  The principals are whole cents and the tenures divide 60, so   *)
(* that P / n is exact in model units.                                     *)
(***************************************************************************)
EmiPrincipals == {k * Cent : k \in 1..10} \cup {10 * Unit, 100 * Unit}

EmiRates == {0, 10}

EmiTenures == {1, 2, 3, 4, 5, 6, 12}

AmortizationCalculator ==
    \E P \in EmiPrincipals, r \in EmiRates, n \in EmiTenures :
        /\ req' = [op |-> "calculate_emi", principal |-> P, rate |-> r, tenure |-> n]
        /\ resp' = [op |-> "calculate_emi", emi |-> calculate_emi(P, r, n)]
        /\ UNCHANGED <<customers, loans, payments, inflight>>

EmiSpec == Init /\ [][AmortizationCalculator]_vars

(***************************************************************************)
(* Properties.                                                             *)
(***************************************************************************)

\* What the last request, a check-eligibility or create-loan request q, asks
\* of the stored customer: the customer's loans and the cascade's inputs.
TrialEmi(q) == calculate_emi(q.loan_amount, q.interest_rate, q.tenure)

TotalEmi(q) ==
    SumSeq(Field(LoansOf(q.customer_id), "monthly_repayment")) + TrialEmi(q)

\* CheckEligibility on the current store and request q returns approval = false.
EligibilityRejects(q) ==
    /\ CustomerExists(q.customer_id)
    /\ ~evaluation_raises(customers[q.customer_id], LoansOf(q.customer_id),
                          q.loan_amount, q.interest_rate, q.tenure)
    /\ ~check_eligibility_result(customers[q.customer_id], LoansOf(q.customer_id),
                                 q.loan_amount, q.interest_rate, q.tenure).approval

\* C1 (as claimed): for every stored customer profile and loan history, the
\* credit scorer returns an integer in [300, 850]; get_customer, which returns
\* the scorer's result, answers every existing customer with such a score.
C1_ScoreReturnedInRange ==
    (req.op = "get_customer" /\ CustomerExists(req.customer_id))
        => (resp.status = 200 /\ resp.credit_score \in 300..850)

\* The part of C1 the code does keep: a score that is returned is in [300, 850].
ReturnedScoreInRange ==
    (req.op = "get_customer" /\ resp.status = 200) => resp.credit_score \in 300..850

\* C2: when CheckEligibility on a state and request returns approval = false,
\* CreateLoan on the same state and request persists no loan.
C2_RejectedRequestPersistsNoLoan ==
    [][(req'.op = "create_loan" /\ EligibilityRejects(req')) => loans' = loans]_vars

\* C2 witness: a create-loan request was refused, and CheckEligibility rejects
\* the same request on the same (unchanged) store.
C2_Witness ==
    /\ req.op = "create_loan"
    /\ resp.status = 400
    /\ EligibilityRejects(req)

\* The debt of customer c that its persisted loans account for.
DebtOfLoans(c) == SumSeq(Field(LoansOf(c), "loan_amount"))

\* C3 (as claimed): in every reachable state, also after a create-loan whose
\* storage write failed part-way, each customer's current_debt holds the
\* increment of exactly the customer's persisted loans.
C3_DebtIncrementedIffLoanPersisted ==
    \A c \in 1..Len(customers) : customers[c].current_debt = DebtOfLoans(c)

\* C4: a successful CreateLoan for amount A adds exactly A to that customer's
\* current_debt, changes nothing else of any customer, and leaves the existing
\* loans and the payments as they were.
C4_CreateLoanFrame ==
    [][(req'.op = "create_loan" /\ resp'.status = 200) =>
          /\ Len(customers') = Len(customers)
          /\ \A k \in 1..Len(customers) :
                IF k = req'.customer_id
                THEN /\ customers'[k].current_debt =
                            customers[k].current_debt + req'.loan_amount
                     /\ customers'[k].monthly_salary = customers[k].monthly_salary
                     /\ customers'[k].approved_limit = customers[k].approved_limit
                ELSE customers'[k] = customers[k]
          /\ Len(loans') = Len(loans) + 1
          /\ SubSeq(loans', 1, Len(loans)) = loans
          /\ payments' = payments]_vars

\* C4 witness: a loan was created while another customer and an earlier loan
\* existed.
C4_Witness ==
    /\ req.op = "create_loan"
    /\ resp.status = 200
    /\ Len(customers) = 2
    /\ Len(loans) = 2
    /\ customers[req.customer_id].current_debt # req.loan_amount

\* C5: CheckEligibility returns approval = false whenever the score is below
\* 500, and overall exactly when score < 500, or the EMI-to-income ratio is
\* above 0.5, or current_debt + loan_amount exceeds approved_limit.
C5_RejectionRules ==
    (req.op = "check_eligibility" /\ resp.status = 200) =>
        LET customer == customers[req.customer_id]
            body == resp.body
        IN  /\ body.credit_score < 500 => ~body.approval
            /\ ~body.approval <=>
                  \/ body.credit_score < 500
                  \/ RatioAboveHalf(TotalEmi(req), customer.monthly_salary)
                  \/ customer.current_debt + req.loan_amount > customer.approved_limit

\* C5 witness: a rejection that only the score rule explains: the score is
\* below 500 while the EMI ratio and the debt are within their limits.
C5_Witness ==
    /\ req.op = "check_eligibility"
    /\ resp.status = 200
    /\ resp.body.credit_score < 500
    /\ ~resp.body.approval
    /\ ~RatioAboveHalf(TotalEmi(req), customers[req.customer_id].monthly_salary)
    /\ customers[req.customer_id].current_debt + req.loan_amount
          <= customers[req.customer_id].approved_limit

\* C6: an approval returns max(requested rate, policy rate of the score) when
\* the score is below 650 and the requested rate unchanged otherwise, and the
\* installment computed at the returned rate.
C6_EffectiveRate ==
    (req.op = "check_eligibility" /\ resp.status = 200 /\ resp.body.approval) =>
        LET body == resp.body
            policy_rate == determine_interest_rate(body.credit_score)
        IN  /\ body.interest_rate =
                  IF body.credit_score < 650
                  THEN (IF req.interest_rate >= policy_rate
                        THEN req.interest_rate ELSE policy_rate)
                  ELSE req.interest_rate
            /\ body.monthly_installment =
                  calculate_emi(req.loan_amount, body.interest_rate, req.tenure)

\* C6 witness: an approval whose rate was raised to the policy rate, so that
\* the returned installment is not the trial installment.
C6_Witness ==
    /\ req.op = "check_eligibility"
    /\ resp.status = 200
    /\ resp.body.approval
    /\ resp.body.credit_score < 650
    /\ resp.body.interest_rate > req.interest_rate
    /\ resp.body.monthly_installment # TrialEmi(req)

\* C7: the rate policy returns 8 for a score >= 750, 10 for 650..749, 12 for
\* 550..649 and 15 below 550; 750, 650 and 550 belong to the band they open.
C7_RateBands ==
    resp.op = "determine_interest_rate" =>
        LET s == resp.credit_score
            r == resp.interest_rate
        IN  /\ s >= 750 => r = 8
            /\ (s >= 650 /\ s <= 749) => r = 10
            /\ (s >= 550 /\ s <= 649) => r = 12
            /\ s < 550 => r = 15
            /\ s = 750 => r = 8
            /\ s = 650 => r = 10
            /\ s = 550 => r = 12

\* C7 witness: the policy applied to a boundary score.
C7_Witness ==
    /\ resp.op = "determine_interest_rate"
    /\ resp.credit_score = 650
    /\ resp.interest_rate = 10

\* C8: MakePayment on an existing loan adds 1 to its emis_paid_on_time if and
\* only if |payment_amount - monthly_repayment| < 0.01, and otherwise leaves
\* the counter as it was.
C8_OnTimeCounter ==
    [][(req'.op = "make_payment" /\ LoanExists(req'.loan_id)) =>
          LET l == req'.loan_id
              difference == req'.payment_amount - loans[l].monthly_repayment
          IN  IF -Cent < difference /\ difference < Cent
              THEN loans'[l].emis_paid_on_time = loans[l].emis_paid_on_time + 1
              ELSE loans'[l].emis_paid_on_time = loans[l].emis_paid_on_time]_vars

\* C8 witness: a payment of installment + 0.005 was counted as on time.
C8_Witness ==
    /\ req.op = "make_payment"
    /\ LoanExists(req.loan_id)
    /\ req.payment_amount = loans[req.loan_id].monthly_repayment + (Cent \div 2)
    /\ loans[req.loan_id].emis_paid_on_time = 1

\* C9: MakePayment on an existing loan appends exactly one payment record,
\* whatever the amount, and changes no customer and no loan's amount, rate or
\* installment; on a loan that does not exist it answers 404 and appends nothing.
C9_PaymentFrame ==
    [][req'.op = "make_payment" =>
          IF LoanExists(req'.loan_id)
          THEN /\ payments' = Append(payments,
                      [loan_id |-> req'.loan_id, payment_amount |-> req'.payment_amount])
               /\ customers' = customers
               /\ Len(loans') = Len(loans)
               /\ \A l \in 1..Len(loans) :
                     /\ loans'[l].loan_amount = loans[l].loan_amount
                     /\ loans'[l].interest_rate = loans[l].interest_rate
                     /\ loans'[l].monthly_repayment = loans[l].monthly_repayment
          ELSE /\ resp'.status = 404
               /\ payments' = payments]_vars

\* C9 witness: a payment that is not on time was recorded against a loan.
C9_Witness ==
    /\ req.op = "make_payment"
    /\ resp.status = 200
    /\ Len(payments) = 1
    /\ payments[1].payment_amount # loans[payments[1].loan_id].monthly_repayment
    /\ loans[payments[1].loan_id].emis_paid_on_time = 0

\* C10 (as claimed): every customer's current_debt is >= 0 in every state the
\* handlers reach.
C10_DebtNonNegative ==
    \A c \in 1..Len(customers) : customers[c].current_debt >= 0

\* C11 (as claimed): a Register request with a negative monthly_salary, and a
\* CheckEligibility or CreateLoan request for an existing customer with
\* tenure 0 or loan_amount <= 0, is answered with a validation error (status 422, before the scorer or the EMI
\* calculator runs) and leaves customers, loans and payments unchanged.
C11_MalformedInputRejected ==
    [][/\ (req'.op = "register" /\ req'.monthly_salary < 0) =>
              (resp'.status = 422 /\ UNCHANGED <<customers, loans, payments>>)
       /\ (/\ req'.op \in {"check_eligibility", "create_loan"}
           /\ CustomerExists(req'.customer_id)
           /\ (req'.tenure = 0 \/ req'.loan_amount <= 0)) =>
              (resp'.status = 422 /\ UNCHANGED <<customers, loans, payments>>)]_vars

\* C12 (as claimed): when CheckEligibility approves a request and returns the
\* effective rate R, a CreateLoan for the same customer, amount and tenure
\* with interest_rate = R, issued next on the unchanged store, answers 200 and
\* persists the loan.
C12_ApprovedRateIsAccepted ==
    [][(/\ req.op = "check_eligibility"
        /\ resp.status = 200
        /\ resp.body.approval
        /\ req'.op = "create_loan"
        /\ req'.customer_id = req.customer_id
        /\ req'.loan_amount = req.loan_amount
        /\ req'.tenure = req.tenure
        /\ req'.interest_rate = resp.body.interest_rate) =>
           /\ resp'.status = 200
           /\ Len(loans') = Len(loans) + 1
           /\ loans'[Len(loans')].customer_id = req'.customer_id
           /\ loans'[Len(loans')].interest_rate = req'.interest_rate]_vars

\* The request of test_loan_eligibility, in thousands, asked by a customer
\* registered with a salary of 50 who has no loan and no debt.
FirstLoanExample ==
    /\ req.op = "check_eligibility"
    /\ CustomerExists(req.customer_id)
    /\ customers[req.customer_id].monthly_salary = 50 * Unit
    /\ customers[req.customer_id].current_debt = 0
    /\ LoansOf(req.customer_id) = <<>>
    /\ req.loan_amount = 100 * Unit
    /\ req.interest_rate = 10
    /\ req.tenure = 12

\* C13 (as claimed): for a freshly registered customer with monthly_salary
\* 50000 and no loan history, CheckEligibility with loan_amount 100000,
\* interest_rate 10.0 and tenure 12 returns credit_score 500, approval true and
\* the effective interest rate 12.0.
C13_ExampleRateTwelve ==
    FirstLoanExample =>
        /\ resp.status = 200
        /\ resp.body.credit_score = 500
        /\ resp.body.approval
        /\ resp.body.interest_rate = 12

\* C13 (as amended): the same request returns credit_score 500, approval true
\* and the effective interest rate 15.0, the policy rate of a score below 550.
C13_ExampleRateFifteen ==
    FirstLoanExample =>
        /\ resp.status = 200
        /\ resp.body.credit_score = 500
        /\ resp.body.approval
        /\ resp.body.interest_rate = 15
        /\ resp.body.corrected_interest_rate = 15

\* C13 witness: the example request was answered.
C13_Witness ==
    /\ FirstLoanExample
    /\ resp.status = 200
    /\ resp.body.credit_score = 500

\* C14 (as claimed): for a customer whose stored approved_limit is 0 and whose
\* loan history is not empty, calculate_credit_score takes the debt ratio with
\* denominator 1 (debt_ratio = current_debt) and returns a score: get_customer,
\* which returns the scorer's result, answers 200 with that score.
C14_ZeroLimitScored ==
    (/\ req.op = "get_customer"
     /\ CustomerExists(req.customer_id)
     /\ customers[req.customer_id].approved_limit = 0
     /\ LoansOf(req.customer_id) # <<>>) =>
        /\ resp.status = 200
        /\ resp.credit_score =
              calculate_credit_score(
                  [customers[req.customer_id] EXCEPT !.approved_limit = Unit],
                  LoansOf(req.customer_id))

\* C15 (as claimed): for every principal P > 0 and tenure n >= 1, calculate_emi
\* with annual rate 0 returns P / n rounded to 2 decimal places, a whole number
\* of cents (P = 100, n = 3 gives 33.33).
C15_ZeroRateRounded ==
    (req.op = "calculate_emi" /\ req.rate = 0) =>
        /\ resp.emi % Cent = 0
        /\ resp.emi = Cent * RoundMulDiv(req.principal, 1, Cent * req.tenure)

\* C16: Register creates a customer with approved_limit = round(36 x
\* monthly_salary), the whole number nearest to 36 x monthly_salary (a tie to
\* the even one), and current_debt = 0; and no later Register, CheckEligibility,
\* CreateLoan or MakePayment changes a customer's approved_limit or
\* monthly_salary.
C16_LimitFixedAtRegistration ==
    [][/\ (req'.op = "register" /\ resp'.status = 200) =>
              LET created == customers'[Len(customers')]
                  distance == Abs(created.approved_limit - 36 * req'.monthly_salary)
              IN  /\ Len(customers') = Len(customers) + 1
                  /\ created.monthly_salary = req'.monthly_salary
                  /\ created.current_debt = 0
                  /\ created.approved_limit % Unit = 0
                  /\ 2 * distance <= Unit
                  /\ 2 * distance = Unit => (created.approved_limit \div Unit) % 2 = 0
       /\ \A k \in 1..Len(customers) :
              /\ customers'[k].approved_limit = customers[k].approved_limit
              /\ customers'[k].monthly_salary = customers[k].monthly_salary]_vars

\* C16 witness: a customer whose limit was rounded (36 x 0.01 to 0) and a
\* customer who has since taken a loan, after a payment was recorded.
C16_Witness ==
    /\ req.op = "make_payment"
    /\ resp.status = 200
    /\ \E k \in 1..Len(customers) :
          /\ customers[k].approved_limit = 0
          /\ customers[k].monthly_salary = Cent
    /\ \E k \in 1..Len(customers) :
          /\ customers[k].approved_limit = 360 * Unit
          /\ customers[k].current_debt > 0

\* C17 (as claimed): in every reachable state, also when several CreateLoan
\* requests for one customer interleave between their read of the customer and
\* their loan insert and debt increment, each customer's current_debt is at
\* most the customer's approved_limit.
C17_DebtWithinLimit ==
    \A c \in 1..Len(customers) :
        customers[c].current_debt <= customers[c].approved_limit

\* C18 (as claimed): every loan that CreateLoan persists for a customer whose
\* credit score at creation is below 650 carries an interest_rate that is at
\* least the rate policy's rate for that score.
C18_PersistedRateAtLeastPolicy ==
    [][(req'.op = "create_loan" /\ resp'.status = 200) =>
          LET c == req'.customer_id
              credit_score == calculate_credit_score(customers[c], LoansOf(c))
          IN  credit_score < 650 =>
                 loans'[Len(loans')].interest_rate >= determine_interest_rate(credit_score)]_vars

\* The credit score of customer c, when the scorer returns one.
ScoreOf(c) == calculate_credit_score(customers[c], LoansOf(c))

\* C19: in every state that Register (salary > 0), CreateLoan (amount > 0,
\* rate >= 0, tenure >= 1) and MakePayment reach one at a time, the scorer
\* returns a score of at least 500 for every customer, so that the rule
\* credit_score < 500 refuses no request.
C19_ScoreAtLeastBase ==
    \A c \in 1..Len(customers) :
        /\ ~calculate_credit_score_raises(customers[c], LoansOf(c))
        /\ ScoreOf(c) >= 500

\* C19 witness: a customer with a loan and a payment counted as on time, whose
\* score is made of the base and the components, beside a customer whose
\* approved limit is 0.
C19_Witness ==
    /\ \E c \in 1..Len(customers) :
          /\ LoansOf(c) # <<>>
          /\ customers[c].current_debt > 0
          /\ SumSeq(Field(LoansOf(c), "emis_paid_on_time")) > 0
          /\ ScoreOf(c) > 500
    /\ \E c \in 1..Len(customers) : customers[c].approved_limit = 0

\* The installments of the persisted loans of customer c.
RepaymentsOf(c) == SumSeq(Field(LoansOf(c), "monthly_repayment"))

====
